---- MODULE Spec2Model ----
(***************************************************************************)
(* Block devices of /sys/class/block (src/src/block.rs): the SCSI type     *)
(* codec, device_type, parent_device, children, slaves, queue_scheduler    *)
(* and BlockScheduler::active, over a modelled sysfs tree.                 *)
(*                                                                         *)
(* Text is a sequence of one-character strings, so that formatting,        *)
(* parsing, prefix tests and byte offsets are computed, not assumed.       *)
(***************************************************************************)
EXTENDS Integers, Sequences, FiniteSets, TLC

VARIABLES
    fs,    \* the sysfs tree: instance name -> directory content
    self,  \* the Block the caller holds: [path |-> text]
    op,    \* the operation that ran last ("none" before the first call)
    ret    \* what that operation returned (or that it panicked)

vars == <<fs, self, op, ret>>

----------------------------------------------------------------------------
(* Characters *)

Digits == <<"0", "1", "2", "3", "4", "5", "6", "7", "8", "9">>

Lower == <<"a", "b", "c", "d", "e", "f", "g", "h", "i", "j", "k", "l", "m",
           "n", "o", "p", "q", "r", "s", "t", "u", "v", "w", "x", "y", "z">>

Range(s) == {s[i] : i \in DOMAIN s}

is_ascii_digit(c) == c \in Range(Digits)

is_ascii_alphabetic(c) == c \in Range(Lower)

is_whitespace(c) == c \in {" ", "\n"}

\* The byte value of a character (ASCII).
Byte(c) ==
    IF is_ascii_digit(c) THEN 47 + (CHOOSE i \in DOMAIN Digits : Digits[i] = c)
    ELSE IF is_ascii_alphabetic(c) THEN 96 + (CHOOSE i \in DOMAIN Lower : Lower[i] = c)
    ELSE CASE c = "\n" -> 10
           [] c = " " -> 32
           [] c = "+" -> 43
           [] c = "-" -> 45
           [] c = "/" -> 47
           [] c = "[" -> 91
           [] c = "]" -> 93

----------------------------------------------------------------------------
(* Results *)

Ok(v) == [tag |-> "Ok", val |-> v]
Err(k) == [tag |-> "Err", kind |-> k]
Some(v) == [tag |-> "Some", val |-> v]
None == [tag |-> "None"]
Panic == [tag |-> "Panic"]
NoResult == [tag |-> "NoResult"]

----------------------------------------------------------------------------
(* Text primitives of the standard library *)

starts_with(s, prefix) ==
    Len(s) >= Len(prefix) /\ SubSeq(s, 1, Len(prefix)) = prefix

\* s.chars().nth(n), n counted from 0
nth(s, n) == IF n < Len(s) THEN Some(s[n + 1]) ELSE None

RECURSIVE trim_end(_)
trim_end(s) ==
    IF s # <<>> /\ is_whitespace(s[Len(s)])
    THEN trim_end(SubSeq(s, 1, Len(s) - 1))
    ELSE s

\* u8::MAX
U8Max == 255

\* n.to_string() of an unsigned integer
RECURSIVE to_string(_)
to_string(n) ==
    IF n < 10 THEN <<Digits[n + 1]>>
    ELSE to_string(n \div 10) \o <<Digits[(n % 10) + 1]>>

DigitValue(c) == (CHOOSE i \in DOMAIN Digits : Digits[i] = c) - 1

\* The digit loop of str::parse::<u8>: left to right, the first bad digit or
\* the first overflow ends it.
RECURSIVE ParseDigits(_, _)
ParseDigits(s, acc) ==
    IF s = <<>> THEN Ok(acc)
    ELSE IF ~is_ascii_digit(Head(s)) THEN Err("InvalidDigit")
    ELSE IF acc * 10 + DigitValue(Head(s)) > U8Max THEN Err("PosOverflow")
    ELSE ParseDigits(Tail(s), acc * 10 + DigitValue(Head(s)))

\* str::parse::<u8>: an optional '+', then at least one digit
ParseU8(s) ==
    IF s = <<>> THEN Err("Empty")
    ELSE IF s = <<"+">> \/ s = <<"-">> THEN Err("InvalidDigit")
    ELSE IF Head(s) = "+" THEN ParseDigits(Tail(s), 0)
    ELSE ParseDigits(s, 0)

\* The indices where a whitespace-separated token starts, and where it ends.
TokenStarts(s) ==
    {i \in DOMAIN s : ~is_whitespace(s[i]) /\ (i = 1 \/ is_whitespace(s[i - 1]))}

TokenEnd(s, i) ==
    CHOOSE j \in i..Len(s) :
        /\ \A k \in i..j : ~is_whitespace(s[k])
        /\ (j = Len(s) \/ is_whitespace(s[j + 1]))

\* s.split_whitespace(), collected: the non-empty runs of non-whitespace
split_whitespace(s) ==
    LET starts == TokenStarts(s)
        start(k) == CHOOSE i \in starts : Cardinality({j \in starts : j <= i}) = k
    IN [k \in 1..Cardinality(starts) |-> SubSeq(s, start(k), TokenEnd(s, start(k)))]

----------------------------------------------------------------------------
(* The sysfs tree *)

Absent == [kind |-> "absent"]
File(text) == [kind |-> "file", text |-> text]
Dir(listable, entries) == [kind |-> "dir", listable |-> listable, entries |-> entries]

\* An instance directory: its attribute files and its slaves subdirectory.
Instance(partition, devtype, scheduler, slavesDir) ==
    [partition |-> partition, devtype |-> devtype,
     scheduler |-> scheduler, slaves |-> slavesDir]

PlainDisk == Instance(Absent, Absent, Absent, Absent)

\* "/sys/class/block/"
ClassDir == <<"/", "s", "y", "s", "/", "c", "l", "a", "s", "s", "/",
              "b", "l", "o", "c", "k", "/">>

PathOf(name) == ClassDir \o name

Block(path) == [path |-> path]

\* Path::components of an absolute path: the non-empty runs between '/'.
Components(path) ==
    LET starts == {i \in DOMAIN path : path[i] # "/" /\ (i = 1 \/ path[i - 1] = "/")}
        start(k) == CHOOSE i \in starts : Cardinality({j \in starts : j <= i}) = k
        end(i) == CHOOSE j \in i..Len(path) :
                      /\ \A k \in i..j : path[k] # "/"
                      /\ (j = Len(path) \/ path[j + 1] = "/")
    IN [k \in 1..Cardinality(starts) |-> SubSeq(path, start(k), end(start(k)))]

\* self.path.file_name(): the last component, if there is one.
file_name(path) ==
    LET c == Components(path)
    IN IF c = <<>> THEN None ELSE Some(c[Len(c)])

\* Whether path names an instance directory of the class in tree f.
IsInstanceDir(f, path) ==
    /\ starts_with(path, ClassDir)
    /\ SubSeq(path, Len(ClassDir) + 1, Len(path)) \in DOMAIN f

\* SysClass::read_file: the text of the attribute file, trailing whitespace
\* trimmed; an I/O error when the file (or the instance) does not exist.
read_file(f, b, attr) ==
    IF ~IsInstanceDir(f, b.path) THEN Err("NotFound")
    ELSE LET file == f[SubSeq(b.path, Len(ClassDir) + 1, Len(b.path))][attr]
         IN IF file.kind = "absent" THEN Err("NotFound")
            ELSE Ok(trim_end(file.text))

\* method!(partition parse_file u8)
partition(f, b) ==
    LET r == read_file(f, b, "partition")
    IN IF r.tag = "Err" THEN r ELSE ParseU8(r.val)

----------------------------------------------------------------------------
(* SCSI device types *)

SCSI_TYPE_DISK == 0
SCSI_TYPE_TAPE == 1
SCSI_TYPE_PRINTER == 2
SCSI_TYPE_PROCESSOR == 3
SCSI_TYPE_WORM == 4
SCSI_TYPE_ROM == 5
SCSI_TYPE_SCANNER == 6
SCSI_TYPE_MOD == 7
SCSI_TYPE_MEDIUM_CHANGER == 8
SCSI_TYPE_COMM == 9
SCSI_TYPE_RAID == 12
SCSI_TYPE_ENCLOSURE == 13
SCSI_TYPE_RBC == 14
SCSI_TYPE_OSD == 17
SCSI_TYPE_ZBC == 20
SCSI_TYPE_WLUN == 30
SCSI_TYPE_NO_LUN == 127

\* enum ScsiDeviceType: a named variant, or Unknown(number)
Named(v) == [variant |-> v]
Unknown(number) == [variant |-> "Unknown", number |-> number]

\* The discriminants the enum declares for its named variants.
ScsiDiscriminant ==
    [Disk |-> 0, Tape |-> 1, Printer |-> 2, Processor |-> 3,
     WriteOnceReadManyDevice |-> 4, ReadOnlyMemory |-> 5, Scanner |-> 6,
     MagnetoOpticalDisk |-> 7, MediumChanger |-> 8, CommunicationsDevice |-> 9,
     Raid |-> 12, Enclosure |-> 13, ReducedBlockCommandsDevice |-> 14,
     ObjectStorageDevice |-> 17, ZonedBlockDevice |-> 20,
     WellKnownLogicalUnit |-> 30, NoLogicalUnit |-> 127]

\* impl From<ScsiDeviceType> for u8
u8_from(value) ==
    CASE value.variant = "Disk" -> SCSI_TYPE_DISK
      [] value.variant = "Tape" -> SCSI_TYPE_TAPE
      [] value.variant = "Printer" -> SCSI_TYPE_PRINTER
      [] value.variant = "Processor" -> SCSI_TYPE_PROCESSOR
      [] value.variant = "WriteOnceReadManyDevice" -> SCSI_TYPE_WORM
      [] value.variant = "ReadOnlyMemory" -> SCSI_TYPE_ROM
      [] value.variant = "Scanner" -> SCSI_TYPE_SCANNER
      [] value.variant = "MagnetoOpticalDisk" -> SCSI_TYPE_MOD
      [] value.variant = "MediumChanger" -> SCSI_TYPE_MEDIUM_CHANGER
      [] value.variant = "CommunicationsDevice" -> SCSI_TYPE_COMM
      [] value.variant = "Raid" -> SCSI_TYPE_RAID
      [] value.variant = "Enclosure" -> SCSI_TYPE_ENCLOSURE
      [] value.variant = "ReducedBlockCommandsDevice" -> SCSI_TYPE_RBC
      [] value.variant = "ObjectStorageDevice" -> SCSI_TYPE_OSD
      [] value.variant = "ZonedBlockDevice" -> SCSI_TYPE_ZBC
      [] value.variant = "WellKnownLogicalUnit" -> SCSI_TYPE_WLUN
      [] value.variant = "NoLogicalUnit" -> SCSI_TYPE_NO_LUN
      [] value.variant = "Unknown" -> value.number

\* The match of from_str on the parsed byte.
ScsiVariantOf(number) ==
    CASE number = SCSI_TYPE_DISK -> Named("Disk")
      [] number = SCSI_TYPE_TAPE -> Named("Tape")
      [] number = SCSI_TYPE_PRINTER -> Named("Printer")
      [] number = SCSI_TYPE_PROCESSOR -> Named("Processor")
      [] number = SCSI_TYPE_WORM -> Named("WriteOnceReadManyDevice")
      [] number = SCSI_TYPE_ROM -> Named("ReadOnlyMemory")
      [] number = SCSI_TYPE_SCANNER -> Named("Scanner")
      [] number = SCSI_TYPE_MOD -> Named("MagnetoOpticalDisk")
      [] number = SCSI_TYPE_MEDIUM_CHANGER -> Named("MediumChanger")
      [] number = SCSI_TYPE_COMM -> Named("CommunicationsDevice")
      [] number = SCSI_TYPE_RAID -> Named("Raid")
      [] number = SCSI_TYPE_ENCLOSURE -> Named("Enclosure")
      [] number = SCSI_TYPE_RBC -> Named("ReducedBlockCommandsDevice")
      [] number = SCSI_TYPE_OSD -> Named("ObjectStorageDevice")
      [] number = SCSI_TYPE_ZBC -> Named("ZonedBlockDevice")
      [] number = SCSI_TYPE_WLUN -> Named("WellKnownLogicalUnit")
      [] number = SCSI_TYPE_NO_LUN -> Named("NoLogicalUnit")
      [] OTHER -> Unknown(number)

\* from_str with the byte masked to the 5-bit peripheral device type field.
from_str_masked(s) ==
    LET r == ParseU8(s)
    IN IF r.tag = "Err" THEN r ELSE Ok(ScsiVariantOf(r.val % 32))

\* impl FromStr for ScsiDeviceType
from_str(s) ==
    LET r == ParseU8(s)
    IN IF r.tag = "Err" THEN r ELSE Ok(ScsiVariantOf(r.val))

\* method!("device/type", device_type_scsi parse_file ScsiDeviceType)
device_type_scsi(f, b) ==
    LET r == read_file(f, b, "devtype")
    IN IF r.tag = "Err" THEN r ELSE from_str(r.val)

----------------------------------------------------------------------------
(* Names and attribute texts the trees are built from *)

sda == <<"s", "d", "a">>

NL == <<"\n">>

\* Texts no integer parser accepts, and one past the byte range.
BadNumbers == {<<>>, <<"x">>, <<"-", "1">>, <<"1", "a">>, <<"2", "5", "6">>}

----------------------------------------------------------------------------
(* The codec: device/type holds the decimal text of a byte, or junk *)

InitScsi ==
    /\ \E text \in {to_string(b) \o NL : b \in 0..U8Max} \cup BadNumbers :
           fs = (sda :> Instance(Absent, File(text), Absent, Absent))
    /\ self = Block(PathOf(sda))
    /\ op = "none"
    /\ ret = NoResult

CallDeviceTypeScsi ==
    /\ op' = "device_type_scsi"
    /\ ret' = device_type_scsi(fs, self)
    /\ UNCHANGED <<fs, self>>

\* u8::from applied to the device type the last call produced
CallU8From ==
    /\ op = "device_type_scsi"
    /\ ret.tag = "Ok"
    /\ op' = "u8_from"
    /\ ret' = Ok(u8_from(ret.val))
    /\ UNCHANGED <<fs, self>>

NextScsi == CallDeviceTypeScsi \/ CallU8From

SpecScsi == InitScsi /\ [][NextScsi]_vars

\* The byte whose decimal text the device/type file holds, if any.
WrittenByte ==
    {b \in 0..U8Max : fs[sda].devtype = File(to_string(b) \o NL)}

KnownNames == DOMAIN ScsiDiscriminant

\* C1: for every byte b, parsing the decimal text of b and converting the
\* result back yields b; a byte that is the discriminant of a named variant
\* parses to that variant, every other byte to Unknown(b).
C1_RoundTrip ==
    \A b \in WrittenByte :
        /\ op = "device_type_scsi" =>
             /\ ret.tag = "Ok"
             /\ \A v \in KnownNames : ScsiDiscriminant[v] = b => ret.val = Named(v)
             /\ (\A v \in KnownNames : ScsiDiscriminant[v] # b) => ret.val = Unknown(b)
        /\ op = "u8_from" => ret = Ok(b)

\* A byte outside the named codes went through the round trip.
C1_Witness ==
    /\ op = "u8_from"
    /\ WrittenByte = {200}
    /\ ret = Ok(200)

----------------------------------------------------------------------------
(* Classification *)

\* enum BlockDeviceType
Scsi(t) == [variant |-> "Scsi", scsi |-> t]

\* The characters is_ascii_digit and is_ascii_alphabetic accept.
AsciiDigit == {c \in Range(Digits) : is_ascii_digit(c)}
AsciiAlphabetic == {c \in Range(Lower) : is_ascii_alphabetic(c)}

\* name.is_some_and(|name| name.starts_with(prefix) &&
\*     name.chars().nth(n).is_some_and(|c| c is of class))
NameIs(name, prefix, n, class) ==
    /\ name.tag = "Some"
    /\ starts_with(name.val, prefix)
    /\ nth(name.val, n).tag = "Some"
    /\ nth(name.val, n).val \in class

\* device_type with the SCSI attribute consulted after the sd<letter> name rule.
device_type_sd_first(f, b) ==
    LET name == file_name(b.path)
    IN IF partition(f, b).tag = "Ok" THEN Named("Partition")
       ELSE IF NameIs(name, <<"d", "m", "-">>, 3, AsciiDigit) THEN Named("DeviceMapper")
       ELSE IF NameIs(name, <<"l", "o", "o", "p">>, 4, AsciiDigit) THEN Named("Loop")
       ELSE IF NameIs(name, <<"m", "d">>, 2, AsciiDigit) THEN Named("MultipleDevice")
       ELSE IF NameIs(name, <<"n", "v", "m", "e">>, 4, AsciiDigit) THEN Named("Nvme")
       ELSE IF NameIs(name, <<"r", "a", "m">>, 3, AsciiDigit) THEN Named("RamDisk")
       ELSE IF NameIs(name, <<"z", "r", "a", "m">>, 4, AsciiDigit)
            THEN Named("CompressedRamDisk")
       ELSE IF NameIs(name, <<"s", "d">>, 2, AsciiAlphabetic) THEN Named("StorageDevice")
       ELSE IF device_type_scsi(f, b).tag = "Ok" THEN Scsi(device_type_scsi(f, b).val)
       ELSE Named("Unknown")

\* Block::device_type
device_type(f, b) ==
    LET name == file_name(b.path)
    IN IF partition(f, b).tag = "Ok" THEN Named("Partition")
       ELSE IF NameIs(name, <<"d", "m", "-">>, 3, AsciiDigit) THEN Named("DeviceMapper")
       ELSE IF NameIs(name, <<"l", "o", "o", "p">>, 4, AsciiDigit) THEN Named("Loop")
       ELSE IF NameIs(name, <<"m", "d">>, 2, AsciiDigit) THEN Named("MultipleDevice")
       ELSE IF NameIs(name, <<"n", "v", "m", "e">>, 4, AsciiDigit) THEN Named("Nvme")
       ELSE IF NameIs(name, <<"r", "a", "m">>, 3, AsciiDigit) THEN Named("RamDisk")
       ELSE IF NameIs(name, <<"z", "r", "a", "m">>, 4, AsciiDigit)
            THEN Named("CompressedRamDisk")
       ELSE IF device_type_scsi(f, b).tag = "Ok" THEN Scsi(device_type_scsi(f, b).val)
       ELSE IF NameIs(name, <<"s", "d">>, 2, AsciiAlphabetic) THEN Named("StorageDevice")
       ELSE Named("Unknown")

\* How long a suffix the classified names carry after their prefix.
MaxSuffix == 2

NamePrefixes ==
    {<<>>, <<"d", "m", "-">>, <<"d", "m">>, <<"l", "o", "o", "p">>, <<"m", "d">>,
     <<"n", "v", "m", "e">>, <<"r", "a", "m">>, <<"z", "r", "a", "m">>,
     <<"s", "d">>, <<"s", "r">>, <<"v", "d">>}

Suffixes == UNION {[1..n -> {"0", "a", "p"}] : n \in 0..MaxSuffix}

ClassifiedNames == {p \o x : p \in NamePrefixes, x \in Suffixes} \ {<<>>}

\* Bytes whose decimal text the partition and device/type files hold.
PartitionSamples == {0, 1, 255}
TypeSamples == {0, 5, 200}

NumberFile(n) == File(to_string(n) \o NL)

InitType ==
    /\ \E name \in ClassifiedNames :
       \E part \in {Absent} \cup {NumberFile(n) : n \in PartitionSamples}
                            \cup {File(t) : t \in BadNumbers} :
       \E type \in {Absent} \cup {NumberFile(n) : n \in TypeSamples}
                            \cup {File(t) : t \in BadNumbers} :
           /\ fs = (name :> Instance(part, type, Absent, Absent))
           /\ self = Block(PathOf(name))
    /\ op = "none"
    /\ ret = NoResult

CallDeviceType ==
    /\ op' = "device_type"
    /\ ret' = device_type(fs, self)
    /\ UNCHANGED <<fs, self>>

NextType == CallDeviceType

SpecType == InitType /\ [][NextType]_vars

\* The instance the caller holds is the single instance of the tree.
SelfName == CHOOSE n \in DOMAIN fs : self = Block(PathOf(n))

\* The attribute holds the decimal text of one of the bytes in range.
HoldsByte(file, range) == \E n \in range : file = NumberFile(n)

\* name is prefix, then a character of class, then anything
PrefixThen(name, prefix, class) ==
    /\ Len(name) > Len(prefix)
    /\ \A i \in 1..Len(prefix) : name[i] = prefix[i]
    /\ name[Len(prefix) + 1] \in class

\* The rules of the classification in their order: <<variant, whether it matches>>.
TypeRules ==
    LET n == SelfName
        d == Range(Digits)
    IN << <<"Partition", HoldsByte(fs[n].partition, PartitionSamples)>>,
          <<"DeviceMapper", PrefixThen(n, <<"d", "m", "-">>, d)>>,
          <<"Loop", PrefixThen(n, <<"l", "o", "o", "p">>, d)>>,
          <<"MultipleDevice", PrefixThen(n, <<"m", "d">>, d)>>,
          <<"Nvme", PrefixThen(n, <<"n", "v", "m", "e">>, d)>>,
          <<"RamDisk", PrefixThen(n, <<"r", "a", "m">>, d)>>,
          <<"CompressedRamDisk", PrefixThen(n, <<"z", "r", "a", "m">>, d)>>,
          <<"Scsi", HoldsByte(fs[n].devtype, TypeSamples)>>,
          <<"StorageDevice", PrefixThen(n, <<"s", "d">>, Range(Lower))>>,
          <<"Unknown", TRUE>> >>

FirstMatch == CHOOSE i \in DOMAIN TypeRules :
                  /\ TypeRules[i][2]
                  /\ \A j \in 1..(i - 1) : ~TypeRules[j][2]

\* C2: device_type returns the variant of the first rule that matches, in
\* the order Partition, DeviceMapper, Loop, MultipleDevice, Nvme, RamDisk,
\* CompressedRamDisk, Scsi(code), StorageDevice, Unknown; a prefix without
\* the digit or letter right after it does not match its rule.
C2_FirstRuleWins ==
    op = "device_type" =>
        /\ ret.variant = TypeRules[FirstMatch][1]
        /\ ret.variant = "Scsi" =>
               fs[SelfName].devtype = NumberFile(u8_from(ret.scsi))

\* nvme0p, which the Nvme rule matches too, classified with a parsable
\* partition attribute.
C2_Witness ==
    /\ op = "device_type"
    /\ SelfName = <<"n", "v", "m", "e", "0", "p">>
    /\ fs[SelfName].partition = NumberFile(1)
    /\ ret = Named("Partition")

\* sda with a parsable device/type and no partition attribute is Scsi.
C2_WitnessScsi ==
    /\ op = "device_type"
    /\ SelfName = <<"s", "d", "a">>
    /\ fs[SelfName].partition = Absent
    /\ ret = Scsi(Named("ReadOnlyMemory"))

----------------------------------------------------------------------------
(* Hierarchy *)

\* Block::parent_device. The offset is computed in usize: when it would go
\* below zero the subtraction overflows (a panic with overflow checks, and
\* without them an offset past the end, on which split_at panics).
parent_device(f, b) ==
    LET p == partition(f, b)
    IN IF p.tag # "Ok" THEN None
       ELSE LET pos == Len(b.path) - p.val \div 10 - 1
            IN IF pos < 0 THEN Panic
               ELSE Some(Block(SubSeq(b.path, 1, pos)))

\* Path equality compares components.
path_eq(a, b) == Components(a) = Components(b)

\* Byte-wise lexicographic order of two texts.
RECURSIVE BytesLess(_, _)
BytesLess(a, b) ==
    IF b = <<>> THEN FALSE
    ELSE IF a = <<>> THEN TRUE
    ELSE IF Byte(Head(a)) # Byte(Head(b)) THEN Byte(Head(a)) < Byte(Head(b))
    ELSE BytesLess(Tail(a), Tail(b))

\* Path order compares component by component.
RECURSIVE ComponentsLess(_, _)
ComponentsLess(a, b) ==
    IF b = <<>> THEN FALSE
    ELSE IF a = <<>> THEN TRUE
    ELSE IF Head(a) # Head(b) THEN BytesLess(Head(a), Head(b))
    ELSE ComponentsLess(Tail(a), Tail(b))

\* The derived Ord of Block: the order of its path.
block_lt(x, y) == ComponentsLess(Components(x.path), Components(y.path))

RECURSIVE InsertSorted(_, _)
InsertSorted(x, sorted) ==
    IF sorted = <<>> THEN <<x>>
    ELSE IF block_lt(Head(sorted), x) THEN <<Head(sorted)>> \o InsertSorted(x, Tail(sorted))
    ELSE <<x>> \o sorted

\* A sort that leaves the listing order as it is.
sort_unstable_skipped(blocks) == blocks

\* children.sort_unstable()
RECURSIVE sort_unstable(_)
sort_unstable(blocks) ==
    IF blocks = <<>> THEN <<>>
    ELSE InsertSorted(Head(blocks), sort_unstable(Tail(blocks)))

\* The orders in which a directory listing can return the instances.
Listings(f) ==
    {order \in [1..Cardinality(DOMAIN f) -> DOMAIN f] :
         \A i, j \in DOMAIN order : i # j => order[i] # order[j]}

\* SysClass::all over a listing: one Block per entry, in listing order.
all(listing) ==
    IF listing.tag = "Err" THEN listing
    ELSE Ok([i \in DOMAIN listing.val |-> Block(PathOf(listing.val[i]))])

\* Block::children: the error of all(), else the enumerated instances whose
\* parent_device is a Block with the path of b, sorted; a panic of
\* parent_device on any enumerated instance ends the call.
children(f, b, listing) ==
    LET blocks == all(listing)
    IN IF blocks.tag = "Err" THEN blocks
       ELSE IF \E i \in DOMAIN blocks.val : parent_device(f, blocks.val[i]) = Panic
            THEN Panic
       ELSE Ok(sort_unstable(SelectSeq(blocks.val,
                   LAMBDA x : /\ parent_device(f, x).tag = "Some"
                              /\ path_eq(parent_device(f, x).val.path, b.path))))

CallParentDevice ==
    /\ op' = "parent_device"
    /\ ret' = parent_device(fs, self)
    /\ UNCHANGED <<fs, self>>

CallChildren ==
    /\ \E listing \in {Err("PermissionDenied")} \cup {Ok(o) : o \in Listings(fs)} :
           ret' = children(fs, self, listing)
    /\ op' = "children"
    /\ UNCHANGED <<fs, self>>

----------------------------------------------------------------------------
(* A whole disk and one partition of it *)

nvme0n1 == <<"n", "v", "m", "e", "0", "n", "1">>

Disks == {sda, nvme0n1}

\* The kernel's name of partition n of a disk: <disk><n>, and <disk>p<n>
\* when the name of the disk ends in a digit.
PartitionName(disk, n) ==
    IF is_ascii_digit(disk[Len(disk)]) THEN disk \o <<"p">> \o to_string(n)
    ELSE disk \o to_string(n)

\* What the partition attribute of the partition holds: its own number, as
\* the kernel writes it, or nothing, or text that names no partition.
PartitionFiles(n) ==
    {NumberFile(n), NumberFile(0), Absent} \cup {File(t) : t \in BadNumbers}

InitParent ==
    /\ \E disk \in Disks, n \in 1..U8Max :
       \E file \in PartitionFiles(n) :
           /\ fs = (disk :> PlainDisk) @@
                   (PartitionName(disk, n) :> Instance(file, Absent, Absent, Absent))
           /\ self \in {Block(PathOf(disk)), Block(PathOf(PartitionName(disk, n)))}
    /\ op = "none"
    /\ ret = NoResult

NextParent == CallParentDevice \/ CallDeviceType

SpecParent == InitParent /\ [][NextParent]_vars

\* The disk of the tree, and the number in the name of its partition.
TheDisk == CHOOSE d \in Disks : d \in DOMAIN fs

ThePartition == CHOOSE name \in DOMAIN fs : name # TheDisk

TheNumber == CHOOSE n \in 1..U8Max : ThePartition = PartitionName(TheDisk, n)

\* The caller holds the partition, and its attribute equals its number.
HoldsStandardPartition ==
    /\ self = Block(PathOf(ThePartition))
    /\ fs[ThePartition].partition = NumberFile(TheNumber)

\* C5: for a partition named by the kernel's conventions whose partition
\* attribute equals its number, parent_device returns the Block of the
\* whole disk, for every partition number.
C5_ParentIsWholeDisk ==
    (op = "parent_device" /\ HoldsStandardPartition) =>
        ret = Some(Block(PathOf(TheDisk)))

\* C9: the path of every Block parent_device returns is an existing instance
\* directory, the disk directory of every partition being there.
C9_ParentExists ==
    (op = "parent_device" /\ HoldsStandardPartition /\ ret.tag = "Some") =>
        IsInstanceDir(fs, ret.val.path)

\* The text of the file is a positive integer: digits, not all of them zero,
\* and the newline the kernel ends an attribute with.
IsPositiveInteger(file) ==
    /\ file.kind = "file"
    /\ LET t == IF file.text # <<>> /\ file.text[Len(file.text)] = "\n"
                THEN SubSeq(file.text, 1, Len(file.text) - 1)
                ELSE file.text
       IN /\ t # <<>>
          /\ \A i \in DOMAIN t : t[i] \in Range(Digits)
          /\ \E i \in DOMAIN t : t[i] # "0"

SelfFile ==
    IF self = Block(PathOf(TheDisk)) THEN fs[TheDisk].partition
    ELSE fs[ThePartition].partition

\* C10: parent_device returns a Block exactly when the partition attribute is
\* present and a positive integer, and none otherwise; device_type returns
\* Partition in exactly the same cases.
C10_PartitionIffPositive ==
    /\ op = "parent_device" =>
           IF IsPositiveInteger(SelfFile) THEN ret.tag = "Some" ELSE ret = None
    /\ op = "device_type" =>
           (ret = Named("Partition") <=> IsPositiveInteger(SelfFile))

----------------------------------------------------------------------------
(* Several instances, each with or without a partition attribute *)

\* How many instances the class directory holds.
MaxInstances == 3

sd == <<"s", "d">>

InstancePool ==
    {sd, sda, sda \o <<"1">>, sda \o <<"2">>, sda \o <<"1", "2">>}

InstanceFiles == {Absent, NumberFile(1), NumberFile(12), NumberFile(250)}

InitChildren ==
    /\ \E names \in SUBSET InstancePool :
           /\ names # {}
           /\ Cardinality(names) <= MaxInstances
           /\ \E files \in [names -> InstanceFiles] :
                  fs = [n \in names |-> Instance(files[n], Absent, Absent, Absent)]
           /\ \E n \in names : self = Block(PathOf(n))
    /\ op = "none"
    /\ ret = NoResult

NextChildren == CallChildren

SpecChildren == InitChildren /\ [][NextChildren]_vars

\* The enumerated instances whose parent_device is a Block with the path of
\* the queried instance.
ChildrenOfSelf ==
    {Block(PathOf(n)) : n \in
        {x \in DOMAIN fs :
            /\ parent_device(fs, Block(PathOf(x))).tag = "Some"
            /\ parent_device(fs, Block(PathOf(x))).val.path = self.path}}

\* C3: children returns a sequence sorted ascending by path that holds
\* exactly the enumerated instances whose parent_device is a Block with the
\* path of the queried instance.
C3_ChildrenSortedExact ==
    (op = "children" /\ ret.tag = "Ok") =>
        /\ \A i, j \in DOMAIN ret.val :
               i < j => BytesLess(ret.val[i].path, ret.val[j].path)
        /\ Range(ret.val) = ChildrenOfSelf

\* children of sda returned sda1 before sda2.
C3_Witness ==
    /\ op = "children"
    /\ self = Block(PathOf(sda))
    /\ ret = Ok(<<Block(PathOf(sda \o <<"1">>)), Block(PathOf(sda \o <<"2">>))>>)

----------------------------------------------------------------------------
(* Slaves *)

\* The iterator slaves() returns: the entries of the directory as read_dir
\* streams them, and how many of them have been taken.
SlaveIter(b, entries) == [dir |-> b.path \o <<"/", "s", "l", "a", "v", "e", "s">>,
                          entries |-> entries, pos |-> 0]

\* Block::slaves with an empty directory reported as no directory.
slaves_empty_is_none(f, b) ==
    IF ~IsInstanceDir(f, b.path) THEN None
    ELSE LET d == f[SubSeq(b.path, Len(ClassDir) + 1, Len(b.path))].slaves
         IN IF d.kind = "absent" \/ d.entries = <<>> THEN None
            ELSE IF d.listable THEN Some(Ok(SlaveIter(b, d.entries)))
            ELSE Some(Err("PermissionDenied"))

\* Block::slaves
slaves(f, b) ==
    IF ~IsInstanceDir(f, b.path) THEN None
    ELSE LET d == f[SubSeq(b.path, Len(ClassDir) + 1, Len(b.path))].slaves
         IN IF d.kind = "absent" THEN None
            ELSE IF d.listable THEN Some(Ok(SlaveIter(b, d.entries)))
            ELSE Some(Err("PermissionDenied"))

\* The closure mapped over the entries: |entry| Ok(entry?.path())
SlavePath(it, entry) ==
    IF entry.tag = "Err" THEN entry ELSE Ok(it.dir \o <<"/">> \o entry.val)

\* Iterator::next on the SlaveIter: the item, and the iterator after it.
slave_iter_next(it) ==
    IF it.pos < Len(it.entries)
    THEN [tag |-> "Next", item |-> Some(SlavePath(it, it.entries[it.pos + 1])),
          iter |-> [it EXCEPT !.pos = it.pos + 1]]
    ELSE [tag |-> "Next", item |-> None, iter |-> it]

\* How many entries a slaves directory holds.
MaxEntries == 3

dm0 == <<"d", "m", "-", "0">>

\* What read_dir yields for one entry: its name, or an error.
EntryPool == {Ok(sda), Ok(dm0), Err("Io")}

SlavesDirs ==
    {Absent, Dir(FALSE, <<>>)} \cup
    {Dir(TRUE, e) : e \in UNION {[1..n -> EntryPool] : n \in 0..MaxEntries}}

InitSlaves ==
    /\ \E d \in SlavesDirs : fs = (dm0 :> Instance(Absent, Absent, Absent, d))
    /\ self = Block(PathOf(dm0))
    /\ op = "none"
    /\ ret = NoResult

CallSlaves ==
    /\ op' = "slaves"
    /\ ret' = slaves(fs, self)
    /\ UNCHANGED <<fs, self>>

\* The items the iterator yields until it ends.
RECURSIVE collect(_)
collect(it) ==
    LET n == slave_iter_next(it)
    IN IF n.item = None THEN <<>> ELSE <<n.item.val>> \o collect(n.iter)

\* The caller drains the iterator the last call returned.
CallCollect ==
    /\ op = "slaves"
    /\ ret.tag = "Some"
    /\ ret.val.tag = "Ok"
    /\ op' = "collect"
    /\ ret' = [tag |-> "Vec", items |-> collect(ret.val.val)]
    /\ UNCHANGED <<fs, self>>

NextSlaves == CallSlaves \/ CallCollect

SpecSlaves == InitSlaves /\ [][NextSlaves]_vars

SlavesOfDm0 == fs[dm0].slaves

SlavesPrefix == PathOf(dm0) \o <<"/", "s", "l", "a", "v", "e", "s", "/">>

\* C6: slaves returns none exactly when there is no slaves subdirectory; a
\* listing that fails is the error of the outer result; a listable
\* subdirectory gives a successful sequence that yields one item per
\* directory entry, so none for an empty subdirectory.
C6_Slaves ==
    /\ op = "slaves" =>
         /\ ret = None <=> SlavesOfDm0.kind = "absent"
         /\ (SlavesOfDm0.kind = "dir" /\ ~SlavesOfDm0.listable) =>
                ret.tag = "Some" /\ ret.val.tag = "Err"
         /\ (SlavesOfDm0.kind = "dir" /\ SlavesOfDm0.listable) =>
                ret.tag = "Some" /\ ret.val.tag = "Ok"
    /\ op = "collect" =>
         /\ SlavesOfDm0.kind = "dir" /\ SlavesOfDm0.listable
         /\ Len(ret.items) = Len(SlavesOfDm0.entries)
         /\ \A k \in DOMAIN ret.items :
                LET e == SlavesOfDm0.entries[k]
                IN /\ ret.items[k].tag = e.tag
                   /\ e.tag = "Ok" => ret.items[k].val = SlavesPrefix \o e.val

\* An empty slaves directory was listed and drained: no item, no error.
C6_Witness ==
    /\ op = "collect"
    /\ SlavesOfDm0 = Dir(TRUE, <<>>)
    /\ ret.items = <<>>

\* A directory with a failing entry between two good ones was drained.
C6_WitnessEntries ==
    /\ op = "collect"
    /\ SlavesOfDm0 = Dir(TRUE, <<Ok(sda), Err("Io"), Ok(dm0)>>)
    /\ Len(ret.items) = 3

----------------------------------------------------------------------------
(* Scheduler *)

\* The values of a u8: `as u8` keeps a usize modulo this.
U8Range == 256

\* struct BlockScheduler
BlockScheduler(schedules, active) == [schedules |-> schedules, active |-> active]

\* The loop with active taken after the push instead of before it.
ParseSchedulesAfterPush(tokens) ==
    LET marked == {k \in DOMAIN tokens : starts_with(tokens[k], <<"[">>)}
        active == IF marked = {} THEN 0
                  ELSE CHOOSE k \in marked : \A j \in marked : j <= k
        schedules == [k \in DOMAIN tokens |->
                         IF k \in marked
                         THEN SubSeq(tokens[k], 2, Len(tokens[k]) - 1)
                         ELSE tokens[k]]
    IN IF \E k \in marked : Len(tokens[k]) < 2 THEN Panic
       ELSE Ok(BlockScheduler(schedules, active % U8Range))

\* The loop of queue_scheduler over the tokens. A token that starts with '['
\* sets active to the number of names pushed before it and is stored without
\* its first and last byte, so the last such token decides active; the slice
\* 1..len-1 of a token that is '[' alone panics.
ParseSchedules(tokens) ==
    LET marked == {k \in DOMAIN tokens : starts_with(tokens[k], <<"[">>)}
        active == IF marked = {} THEN 0
                  ELSE (CHOOSE k \in marked : \A j \in marked : j <= k) - 1
        schedules == [k \in DOMAIN tokens |->
                         IF k \in marked
                         THEN SubSeq(tokens[k], 2, Len(tokens[k]) - 1)
                         ELSE tokens[k]]
    IN IF \E k \in marked : Len(tokens[k]) < 2 THEN Panic
       ELSE Ok(BlockScheduler(schedules, active % U8Range))

\* Block::queue_scheduler
queue_scheduler(f, b) ==
    LET r == read_file(f, b, "scheduler")
    IN IF r.tag = "Err" THEN r ELSE ParseSchedules(split_whitespace(r.val))

\* BlockScheduler::active: indexing past the end panics.
active(bs) ==
    IF bs.active < Len(bs.schedules)
    THEN [tag |-> "Str", val |-> bs.schedules[bs.active + 1]]
    ELSE Panic

\* How long the enumerated scheduler texts are.
MaxText == 5

SchedulerChars == {"a", "b", "[", "]", " "}

ShortTexts == UNION {[1..n -> SchedulerChars] : n \in 0..MaxText}

\* n names, each "a" followed by a blank, but for the m-th, which is "[b]";
\* the text ends with a newline.
LongText(n, m) ==
    [i \in 1..(2 * n + 2) |->
        LET j == i - 2 * (m - 1)
        IN IF i = 2 * n + 2 THEN "\n"
           ELSE IF j = 1 THEN "["
           ELSE IF j = 2 THEN "b"
           ELSE IF j = 3 THEN "]"
           ELSE IF j <= 0 THEN (IF i % 2 = 1 THEN "a" ELSE " ")
           ELSE (IF j % 2 = 1 THEN "a" ELSE " ")]

\* Lists as long as a u8 counts, and one longer, the first or the last name
\* marked.
LongTexts == {LongText(n, m) : n \in {U8Range, U8Range + 1}, m \in {1, U8Range, U8Range + 1}}

InitScheduler ==
    /\ \E file \in {Absent} \cup {File(t) : t \in ShortTexts \cup LongTexts} :
           fs = (sda :> Instance(Absent, Absent, file, Absent))
    /\ self = Block(PathOf(sda))
    /\ op = "none"
    /\ ret = NoResult

CallQueueScheduler ==
    /\ op' = "queue_scheduler"
    /\ ret' = queue_scheduler(fs, self)
    /\ UNCHANGED <<fs, self>>

\* active() on the BlockScheduler the last call returned
CallActive ==
    /\ op = "queue_scheduler"
    /\ ret.tag = "Ok"
    /\ op' = "active"
    /\ ret' = active(ret.val)
    /\ UNCHANGED <<fs, self>>

NextScheduler == CallQueueScheduler \/ CallActive

SpecScheduler == InitScheduler /\ [][NextScheduler]_vars

\* The tokens of the scheduler file as the kernel wrote it.
FileTokens ==
    IF fs[sda].scheduler.kind = "file" THEN split_whitespace(fs[sda].scheduler.text)
    ELSE <<>>

HasBracket(t) == \E i \in DOMAIN t : t[i] \in {"[", "]"}

\* t is a name wrapped in [ ]
IsWrapped(t) ==
    /\ Len(t) >= 3
    /\ t[1] = "["
    /\ t[Len(t)] = "]"
    /\ ~HasBracket(SubSeq(t, 2, Len(t) - 1))

Unwrapped(t) == IF IsWrapped(t) THEN SubSeq(t, 2, Len(t) - 1) ELSE t

\* tokens is a list of names of which exactly one is wrapped in [ ].
OneMarkedName(tokens) ==
    /\ Cardinality({k \in DOMAIN tokens : IsWrapped(tokens[k])}) = 1
    /\ \A k \in DOMAIN tokens : ~IsWrapped(tokens[k]) => ~HasBracket(tokens[k])

MarkedIndex(tokens) == CHOOSE k \in DOMAIN tokens : IsWrapped(tokens[k])

\* C4: for a list of any number of names with exactly one wrapped in [ ],
\* queue_scheduler returns the names in file order with the brackets removed,
\* its active index is the position of the marked name, and active() returns
\* the marked name.
C4_ActiveIsMarked ==
    op \in {"queue_scheduler", "active"} =>
        LET tokens == FileTokens
        IN OneMarkedName(tokens) =>
            /\ op = "queue_scheduler" =>
                   /\ ret.tag = "Ok"
                   /\ ret.val.schedules = [k \in DOMAIN tokens |-> Unwrapped(tokens[k])]
                   /\ ret.val.active = MarkedIndex(tokens) - 1
            /\ op = "active" =>
                   ret = [tag |-> "Str", val |-> Unwrapped(tokens[MarkedIndex(tokens)])]

\* C7: the BlockScheduler queue_scheduler returns has 0 <= active < number
\* of schedulers when a token of the file is bracketed, and active = 0 with
\* all tokens kept in order when none is.
C7_ActiveInRange ==
    (op = "queue_scheduler" /\ ret.tag = "Ok" /\ fs[sda].scheduler.kind = "file") =>
        LET tokens == FileTokens
        IN IF \E k \in DOMAIN tokens : tokens[k][1] = "["
           THEN 0 <= ret.val.active /\ ret.val.active < Len(ret.val.schedules)
           ELSE ret.val.active = 0 /\ ret.val.schedules = tokens

\* "a [b]" was parsed: two names, the second active.
C7_Witness ==
    /\ op = "queue_scheduler"
    /\ fs[sda].scheduler = File(<<"a", " ", "[", "b", "]">>)
    /\ ret = Ok(BlockScheduler(<<(<<"a">>), (<<"b">>)>>, 1))

\* "a b" was parsed: no name marked, active 0.
C7_WitnessUnmarked ==
    /\ op = "queue_scheduler"
    /\ fs[sda].scheduler = File(<<"a", " ", "b">>)
    /\ ret = Ok(BlockScheduler(<<(<<"a">>), (<<"b">>)>>, 0))

----------------------------------------------------------------------------
(* The operations that can abort, over both kinds of tree *)

InitAbort == InitParent \/ InitScheduler

NextAbort == CallParentDevice \/ CallQueueScheduler \/ CallActive

SpecAbort == InitAbort /\ [][NextAbort]_vars

\* C8: parent_device, queue_scheduler and active() never panic: each ends
\* with a value or an error result.
C8_NoPanic == ret # Panic

----------------------------------------------------------------------------
(* Every tree, every operation *)

Init == InitScsi \/ InitType \/ InitParent \/ InitChildren \/ InitSlaves \/ InitScheduler

Next ==
    \/ CallDeviceTypeScsi
    \/ CallU8From
    \/ CallDeviceType
    \/ CallParentDevice
    \/ CallChildren
    \/ CallSlaves
    \/ CallCollect
    \/ CallQueueScheduler
    \/ CallActive

Spec == Init /\ [][Next]_vars

====
